---- MODULE Spec2Model ----
(***************************************************************************)
(* HardwareExpress log AI service (server/ai_service/log_ai_service.py).   *)
(*                                                                         *)
(* Scores are fixed-point numbers in units of 1/10000 (8000 is 0.8).       *)
(* Python values are records of one shape, so that any two of them can be  *)
(* compared:                                                               *)
(*   an entry of a classifier result is                                    *)
(*     [kind, hasLabel, label, scoreKind, score, items]                    *)
(*   kind      "dict"   a mapping, label/score as the next fields say      *)
(*             "list"   a list, whose entries are in items                 *)
(*             "scalar" anything else (a number, a string, None)           *)
(*   scoreKind "missing" no "score" key, "num" a number, "none" the key    *)
(*             is present and holds None (JSON null)                       *)
(*   a classifier result is [isList, items].                               *)
(***************************************************************************)
EXTENDS Integers, Sequences, FiniteSets, TLC

\* ------------------------------------------------------------- bounds
MaxLen == 3         \* longest candidate list drawn as an input
NumWorkers == 2     \* threads of the server's pool serving /analyze
MaxRequests == 3    \* requests accepted in one run
MaxChunks == 2      \* pieces a generated text is put together from

VARIABLES
    \* process-wide configuration, read from the environment at import
    pipelineImported,   \* FALSE when "from transformers import pipeline" failed
    SCORE_THRESHOLD,
    SUSPICIOUS_LABELS,
    \* the lazily initialised singleton
    modelPipeline,      \* _model_pipeline: NoHandle or the id of a loaded handle
    modelError,         \* _model_error: NoError or a message (possibly "")
    loadAttempts,       \* calls of pipeline(...) made so far
    \* the threads of the pool, one request each at a time
    requests,           \* requests accepted so far
    pc, text, pipe, result, outcome,
    invoked,            \* what the request has called: "classifier", "pick_top_label"
    afterFail,          \* the request's get_pipeline call began after a failed load
    remembered,         \* one earlier verdict, kept for comparison
    \* pick_top_label applied to one drawn result
    pickIn, pickOut, pickDone,
    \* the suspicion decision applied to one drawn (label, score)
    decLabel, decScore, decOut, decDone,
    \* the rule-grounded classifier applied to one generator outcome
    genOut, classification, ruleDone

cfgVars  == <<pipelineImported, SCORE_THRESHOLD, SUSPICIOUS_LABELS>>
svcVars  == <<modelPipeline, modelError, loadAttempts, requests, pc, text, pipe,
              result, outcome, invoked, afterFail, remembered>>
pickVars == <<pickIn, pickOut, pickDone>>
decVars  == <<decLabel, decScore, decOut, decDone>>
ruleVars == <<genOut, classification, ruleDone>>
vars     == <<cfgVars, svcVars, pickVars, decVars, ruleVars>>

\* ------------------------------------------------------ Python values
Labels == {"NEGATIVE", "POSITIVE"}
ScoreVals == {0, 8000, 9900}

Dict(hasLabel, label, scoreKind, score) ==
    [kind |-> "dict", hasLabel |-> hasLabel, label |-> label,
     scoreKind |-> scoreKind, score |-> score, items |-> <<>>]
Scalar ==
    [kind |-> "scalar", hasLabel |-> FALSE, label |-> "",
     scoreKind |-> "missing", score |-> 0, items |-> <<>>]
ListOf(items) ==
    [kind |-> "list", hasLabel |-> FALSE, label |-> "",
     scoreKind |-> "missing", score |-> 0, items |-> items]
Cand(label, score) == Dict(TRUE, label, "num", score)

NonList == [isList |-> FALSE, items |-> <<>>]
Flat(items) == [isList |-> TRUE, items |-> items]
Nested(items) == [isList |-> TRUE, items |-> <<ListOf(items)>>]

\* ----------------------------------------------------- pick_top_label
Fallback == [raised |-> FALSE, label |-> "unknown", score |-> 0]
Raised == [raised |-> TRUE, label |-> "", score |-> 0]

\* lines 71-76
Candidates(res) ==
    IF res.isList /\ res.items # <<>> /\ res.items[1].kind = "list"
    THEN res.items[1].items
    ELSE IF res.isList THEN res.items ELSE <<>>

\* item.get exists on mappings only (AttributeError otherwise)
HasGet(item) == item.kind = "dict"

\* item.get("score", 0.0): [num, val]; num is FALSE for None
ScoreKey(item) ==
    IF item.scoreKind = "missing" THEN [num |-> TRUE, val |-> 0]
    ELSE IF item.scoreKind = "num" THEN [num |-> TRUE, val |-> item.score]
    ELSE [num |-> FALSE, val |-> 0]

\* a > b on two keys: TypeError unless both are numbers
Comparable(a, b) == a.num /\ b.num
\* a >= b: the last of several greatest entries would win
MutGreater(a, b) == a.val >= b.val
\* a > b, as max compares
Greater(a, b) == a.val > b.val

\* max(candidates, key=...): the index of the first entry with the greatest
\* key, 0 when computing a key or comparing two keys raises
RECURSIVE MaxScan(_, _, _)
MaxScan(c, i, best) ==
    IF i > Len(c) THEN best
    ELSE IF ~HasGet(c[i]) THEN 0
    ELSE IF ~Comparable(ScoreKey(c[i]), ScoreKey(c[best])) THEN 0
    ELSE MaxScan(c, i + 1, IF Greater(ScoreKey(c[i]), ScoreKey(c[best])) THEN i ELSE best)

PyMax(c) == IF ~HasGet(c[1]) THEN 0 ELSE MaxScan(c, 2, 1)

\* str(top.get("label", "unknown"))
\* str(top.get("label"))
MutLabelOf(item) == IF item.hasLabel THEN item.label ELSE "None"
LabelOf(item) == IF item.hasLabel THEN item.label ELSE "unknown"

\* "not candidates", line 78
IsEmpty(c) == c = <<>>

pick_top_label(res) ==
    LET c == Candidates(res) IN
    IF IsEmpty(c) THEN Fallback
    ELSE LET t == PyMax(c) IN
         IF t = 0 THEN Raised
         ELSE IF ~ScoreKey(c[t]).num THEN Raised      \* float(None): TypeError
         ELSE [raised |-> FALSE, label |-> LabelOf(c[t]), score |-> ScoreKey(c[t]).val]

\* ------------------------------------------------- suspicion decision
\* the threshold taken as exclusive
MutIsSuspicious(label, score) ==
    IF SUSPICIOUS_LABELS # {}
    THEN score > SCORE_THRESHOLD /\ label \in SUSPICIOUS_LABELS
    ELSE score > SCORE_THRESHOLD
\* lines 105-108
IsSuspicious(label, score) ==
    IF SUSPICIOUS_LABELS # {}
    THEN score >= SCORE_THRESHOLD /\ label \in SUSPICIOUS_LABELS
    ELSE score >= SCORE_THRESHOLD

\* format(score, ".3f"): the score rounded to thousandths. No score of the
\* model lies half-way between two thousandths.
Fmt3(score) == (score + 5) \div 10

\* ------------------------------------------- inputs drawn by the checks
LeafDicts ==
    {Dict(FALSE, "", sk, 0) : sk \in {"missing", "none"}}
    \cup {Dict(TRUE, l, sk, 0) : l \in Labels, sk \in {"missing", "none"}}
    \cup {Dict(FALSE, "", "num", s) : s \in ScoreVals}
    \cup {Dict(TRUE, l, "num", s) : l \in Labels, s \in ScoreVals}
Leaves == LeafDicts \cup {Scalar, ListOf(<<>>)}

Thresholds == {5000, 8000}
LabelSets == {{}, {"NEGATIVE"}, {"NEGATIVE", "POSITIVE"}}

\* ------------------------------------------------ states left untouched
NoHandle == 0
NoError == "<None>"
NoOutcome == [kind |-> "none", status |-> 0, detail |-> "", model_name |-> "",
              label |-> "", score |-> 0, threshold |-> 0, is_suspicious |-> FALSE,
              ai_summary |-> <<"", 0>>, raw |-> NonList]
NoMemory == [set |-> FALSE, text |-> "", result |-> NonList, outcome |-> NoOutcome]
Workers == 1..NumWorkers

DefaultConfig ==
    /\ pipelineImported = TRUE
    /\ SCORE_THRESHOLD = 8000
    /\ SUSPICIOUS_LABELS = {}
FreshService ==
    /\ modelPipeline = NoHandle
    /\ modelError = NoError
    /\ loadAttempts = 0
    /\ requests = 0
    /\ pc = [w \in Workers |-> "idle"]
    /\ text = [w \in Workers |-> ""]
    /\ pipe = [w \in Workers |-> NoHandle]
    /\ result = [w \in Workers |-> NonList]
    /\ outcome = [w \in Workers |-> NoOutcome]
    /\ invoked = [w \in Workers |-> {}]
    /\ afterFail = [w \in Workers |-> FALSE]
    /\ remembered = NoMemory
NoPick == pickIn = NonList /\ pickOut = Fallback /\ pickDone = FALSE
NoDecision == decLabel = "" /\ decScore = 0 /\ decOut = FALSE /\ decDone = FALSE
NoGeneration ==
    /\ genOut = [raised |-> FALSE, text |-> <<>>]
    /\ classification = ""
    /\ ruleDone = FALSE

\* ------------------------------------- pick_top_label on a drawn result
InitPick ==
    /\ DefaultConfig /\ FreshService /\ NoDecision /\ NoGeneration
    /\ \E k \in 0..MaxLen : \E c \in [1..k -> Leaves] :
          pickIn \in {NonList, Flat(c), Nested(c)}
    /\ pickOut = Fallback
    /\ pickDone = FALSE

PickTopLabel ==
    /\ ~pickDone
    /\ pickOut' = pick_top_label(pickIn)
    /\ pickDone' = TRUE
    /\ UNCHANGED <<pickIn, cfgVars, svcVars, decVars, ruleVars>>

SpecPick == InitPick /\ [][PickTopLabel]_vars

\* ---------------------------- the suspicion decision on a drawn selection
InitDecide ==
    /\ pipelineImported = TRUE
    /\ SCORE_THRESHOLD \in Thresholds
    /\ SUSPICIOUS_LABELS \in LabelSets
    /\ FreshService /\ NoPick /\ NoGeneration
    /\ decLabel \in Labels \cup {"unknown"}
    /\ decScore \in {0, 4999, 5000, 5001, 7999, 8000, 8001, 9900}
    /\ decOut = FALSE
    /\ decDone = FALSE

Decide ==
    /\ ~decDone
    /\ decOut' = IsSuspicious(decLabel, decScore)
    /\ decDone' = TRUE
    /\ UNCHANGED <<decLabel, decScore, cfgVars, svcVars, pickVars, ruleVars>>

SpecDecide == InitDecide /\ [][Decide]_vars

\* ------------------------------------------------------- the service
MODEL_NAME == "distilbert-base-uncased-finetuned-sst-2-english"
Texts == {"login ok", "' OR 1=1 --"}
LoadErrors == {"", "out of memory"}

\* what pipe(request.text, truncation=True) may hand back
ClassifierResults ==
    { Nested(<<Cand("NEGATIVE", 9900), Cand("POSITIVE", 0)>>),
      Flat(<<>>),
      Flat(<<Scalar>>) }

Init ==
    /\ pipelineImported \in BOOLEAN
    /\ SCORE_THRESHOLD = 8000
    /\ SUSPICIOUS_LABELS \in {{}, {"POSITIVE"}}
    /\ FreshService /\ NoPick /\ NoDecision /\ NoGeneration

Unavailable503(detail) ==
    [NoOutcome EXCEPT !.kind = "unavailable", !.status = 503, !.detail = detail]
Unhandled500 ==
    [NoOutcome EXCEPT !.kind = "error", !.status = 500]
\* lines 102-120
Verdict(top, res) ==
    [kind |-> "verdict", status |-> 200, detail |-> "", model_name |-> MODEL_NAME,
     label |-> top.label, score |-> top.score, threshold |-> SCORE_THRESHOLD,
     is_suspicious |-> IsSuspicious(top.label, top.score),
     ai_summary |-> <<top.label, Fmt3(top.score)>>, raw |-> res]

\* a thread of the pool takes the next POST /analyze and enters get_pipeline:
\* the test of line 55, then the one of line 57. The request's text is drawn
\* where the handler first reads it, at line 100.
Arrive(w) ==
    /\ pc[w] = "idle"
    /\ requests < MaxRequests
    /\ requests' = requests + 1
    /\ afterFail' = [afterFail EXCEPT ![w] = (modelError # NoError)]
    /\ pc' = [pc EXCEPT ![w] =
                IF modelPipeline # NoHandle \/ modelError # NoError THEN "gp_return"
                ELSE IF ~pipelineImported THEN "gp_noimport"
                ELSE "gp_load"]
    /\ UNCHANGED <<modelPipeline, modelError, loadAttempts, text, pipe, result, outcome,
                   invoked, remembered>>
    /\ UNCHANGED <<cfgVars, pickVars, decVars, ruleVars>>

\* get_pipeline, lines 58-59
GetPipelineNoImport(w) ==
    /\ pc[w] = "gp_noimport"
    /\ modelError' = "transformers not available"
    /\ pipe' = [pipe EXCEPT ![w] = NoHandle]
    /\ pc' = [pc EXCEPT ![w] = "have_pipe"]
    /\ UNCHANGED <<modelPipeline, loadAttempts, requests, text, result, outcome,
                   invoked, afterFail, remembered>>
    /\ UNCHANGED <<cfgVars, pickVars, decVars, ruleVars>>

\* get_pipeline, lines 60-63: pipeline(...) returns a new handle, which is stored
GetPipelineLoadOk(w) ==
    /\ pc[w] = "gp_load"
    /\ loadAttempts' = loadAttempts + 1
    /\ modelPipeline' = loadAttempts + 1
    /\ pc' = [pc EXCEPT ![w] = "gp_return"]
    /\ UNCHANGED <<modelError, requests, text, pipe, result, outcome, invoked,
                   afterFail, remembered>>
    /\ UNCHANGED <<cfgVars, pickVars, decVars, ruleVars>>

\* get_pipeline, lines 60-62 and 65-67: pipeline(...) raises
GetPipelineLoadFails(w) ==
    /\ pc[w] = "gp_load"
    /\ loadAttempts' = loadAttempts + 1
    /\ \E msg \in LoadErrors : modelError' = msg
    /\ pipe' = [pipe EXCEPT ![w] = NoHandle]
    /\ pc' = [pc EXCEPT ![w] = "have_pipe"]
    /\ UNCHANGED <<modelPipeline, requests, text, result, outcome, invoked,
                   afterFail, remembered>>
    /\ UNCHANGED <<cfgVars, pickVars, decVars, ruleVars>>

\* get_pipeline, "return _model_pipeline" of lines 56 and 64
GetPipelineReturn(w) ==
    /\ pc[w] = "gp_return"
    /\ pipe' = [pipe EXCEPT ![w] = modelPipeline]
    /\ pc' = [pc EXCEPT ![w] = "have_pipe"]
    /\ UNCHANGED <<modelPipeline, modelError, loadAttempts, requests, text, result,
                   outcome, invoked, afterFail, remembered>>
    /\ UNCHANGED <<cfgVars, pickVars, decVars, ruleVars>>

\* the test of line 96 left out
MutIsNone(p) == FALSE
\* "pipe is None", line 96
IsNone(p) == p = NoHandle

\* analyze_log, lines 96-98
AnalyzeUnavailable(w) ==
    /\ pc[w] = "have_pipe"
    /\ IsNone(pipe[w])
    /\ outcome' = [outcome EXCEPT ![w] =
            Unavailable503(IF modelError \in {NoError, ""}
                           THEN "model not initialized" ELSE modelError)]
    /\ pc' = [pc EXCEPT ![w] = "done"]
    /\ UNCHANGED <<modelPipeline, modelError, loadAttempts, requests, text, pipe, result,
                   invoked, afterFail, remembered>>
    /\ UNCHANGED <<cfgVars, pickVars, decVars, ruleVars>>

\* analyze_log, line 100: the classifier raises; nothing catches it
ClassifierRaises(w) ==
    /\ pc[w] = "have_pipe"
    /\ ~IsNone(pipe[w])
    /\ invoked' = [invoked EXCEPT ![w] = @ \cup {"classifier"}]
    /\ outcome' = [outcome EXCEPT ![w] = Unhandled500]
    /\ pc' = [pc EXCEPT ![w] = "done"]
    /\ UNCHANGED <<modelPipeline, modelError, loadAttempts, requests, text, pipe, result,
                   afterFail, remembered>>
    /\ UNCHANGED <<cfgVars, pickVars, decVars, ruleVars>>

\* as AnalyzeDecide, but the selected label is added to the suspicious labels
MutAnalyzeDecide(w) ==
    /\ pc[w] = "have_pipe"
    /\ ~IsNone(pipe[w])
    /\ invoked' = [invoked EXCEPT ![w] = @ \cup {"classifier", "pick_top_label"}]
    /\ \E t \in Texts : text' = [text EXCEPT ![w] = t]
    /\ \E r \in ClassifierResults :
         LET top == pick_top_label(r) IN
         /\ result' = [result EXCEPT ![w] = r]
         /\ outcome' = [outcome EXCEPT ![w] =
                IF top.raised THEN Unhandled500 ELSE Verdict(top, r)]
         /\ SUSPICIOUS_LABELS' =
                IF top.raised THEN SUSPICIOUS_LABELS ELSE SUSPICIOUS_LABELS \cup {top.label}
    /\ pc' = [pc EXCEPT ![w] = "done"]
    /\ UNCHANGED <<modelPipeline, modelError, loadAttempts, requests, pipe,
                   afterFail, remembered>>
    /\ UNCHANGED <<pipelineImported, SCORE_THRESHOLD, pickVars, decVars, ruleVars>>

\* analyze_log, lines 100-120: the classifier returns r, and the rest of the
\* handler works on locals only; any exception of pick_top_label leaves uncaught
AnalyzeDecide(w) ==
    /\ pc[w] = "have_pipe"
    /\ ~IsNone(pipe[w])
    /\ invoked' = [invoked EXCEPT ![w] = @ \cup {"classifier", "pick_top_label"}]
    /\ \E t \in Texts : text' = [text EXCEPT ![w] = t]
    /\ \E r \in ClassifierResults :
         LET top == pick_top_label(r) IN
         /\ result' = [result EXCEPT ![w] = r]
         /\ outcome' = [outcome EXCEPT ![w] =
                IF top.raised THEN Unhandled500 ELSE Verdict(top, r)]
    /\ pc' = [pc EXCEPT ![w] = "done"]
    /\ UNCHANGED <<modelPipeline, modelError, loadAttempts, requests, pipe,
                   afterFail, remembered>>
    /\ UNCHANGED <<cfgVars, pickVars, decVars, ruleVars>>

\* the response leaves; the thread is free again
Respond(w) ==
    /\ pc[w] = "done"
    /\ \E keep \in BOOLEAN :
         remembered' =
            IF keep /\ ~remembered.set /\ outcome[w].kind = "verdict"
            THEN [set |-> TRUE, text |-> text[w], result |-> result[w],
                  outcome |-> outcome[w]]
            ELSE remembered
    /\ pc' = [pc EXCEPT ![w] = "idle"]
    /\ text' = [text EXCEPT ![w] = ""]
    /\ pipe' = [pipe EXCEPT ![w] = NoHandle]
    /\ result' = [result EXCEPT ![w] = NonList]
    /\ outcome' = [outcome EXCEPT ![w] = NoOutcome]
    /\ invoked' = [invoked EXCEPT ![w] = {}]
    /\ afterFail' = [afterFail EXCEPT ![w] = FALSE]
    /\ UNCHANGED <<modelPipeline, modelError, loadAttempts, requests>>
    /\ UNCHANGED <<cfgVars, pickVars, decVars, ruleVars>>

Next ==
    \E w \in Workers :
        \/ Arrive(w)
        \/ GetPipelineNoImport(w)
        \/ GetPipelineLoadOk(w)
        \/ GetPipelineLoadFails(w)
        \/ GetPipelineReturn(w)
        \/ AnalyzeUnavailable(w)
        \/ ClassifierRaises(w)
        \/ AnalyzeDecide(w)
        \/ Respond(w)

Spec == Init /\ [][Next]_vars

\* ------------------------------------- the rule-grounded classifier
\* A text is a sequence of characters. The generator either raises or
\* returns a text.
KwAnomalous == <<"A", "N", "O", "M", "A", "L", "O", "U", "S">>
KwNormal == <<"N", "O", "R", "M", "A", "L">>
Chunks ==
    { <<"A", "N", "O", "M", "A", "L", "O", "U", "S">>,
      <<"a", "n", "o", "m", "a", "l", "o", "u", "s">>,
      <<"N", "O", "R", "M", "A", "L">>,
      <<"N", "o", "r", "m", "a", "l">>,
      <<"A", "N", "O", "M", "A">>,
      <<"L", "O", "U", "S">>,
      <<"n", "o", "r">>,
      <<"m", "a", "l">>,
      <<"o", "k", " ">> }

UpperCase == ("a" :> "A") @@ ("k" :> "K") @@ ("l" :> "L") @@ ("m" :> "M") @@ ("n" :> "N") @@ ("o" :> "O") @@ ("r" :> "R") @@ ("s" :> "S") @@ ("u" :> "U")
\* str.upper, on one character
ToUpper(ch) == IF ch \in DOMAIN UpperCase THEN UpperCase[ch] ELSE ch
Upper(t) == [i \in 1..Len(t) |-> ToUpper(t[i])]

\* kw in t
Contains(t, kw) ==
    \E i \in 0..(Len(t) - Len(kw)) : \A k \in 1..Len(kw) : t[i + k] = kw[k]

\* the keywords looked for in the other order
MutExtractVerdict(raw) ==
    IF Contains(Upper(raw), KwNormal) THEN "NORMAL"
    ELSE IF Contains(Upper(raw), KwAnomalous) THEN "ANOMALOUS"
    ELSE "NORMAL"
\* "ANOMALOUS" first, then "NORMAL", case-insensitively, else "NORMAL"
ExtractVerdict(raw) ==
    IF Contains(Upper(raw), KwAnomalous) THEN "ANOMALOUS"
    ELSE IF Contains(Upper(raw), KwNormal) THEN "NORMAL"
    ELSE "NORMAL"

\* a failed generation is classified "NORMAL"
classify(gen) == IF gen.raised THEN "NORMAL" ELSE ExtractVerdict(gen.text)

RECURSIVE Concat(_)
Concat(ss) == IF ss = <<>> THEN <<>> ELSE Head(ss) \o Concat(Tail(ss))

InitRule ==
    /\ DefaultConfig /\ FreshService /\ NoPick /\ NoDecision
    /\ \/ genOut = [raised |-> TRUE, text |-> <<>>]
       \/ \E k \in 0..MaxChunks : \E ss \in [1..k -> Chunks] :
             genOut = [raised |-> FALSE, text |-> Concat(ss)]
    /\ classification = ""
    /\ ruleDone = FALSE

Classify ==
    /\ ~ruleDone
    /\ classification' = classify(genOut)
    /\ ruleDone' = TRUE
    /\ UNCHANGED <<genOut, cfgVars, svcVars, pickVars, decVars>>

SpecRule == InitRule /\ [][Classify]_vars

\* ------------------------------------------------------- properties

\* the candidate sequences a result presents: the result itself, or its
\* first entry when the classifier nests the candidates of its one input
Presented(res) ==
    IF ~res.isList THEN {}
    ELSE {res.items} \cup (IF res.items # <<>> THEN {res.items[1].items} ELSE {})

WellFormed(c) ==
    /\ c # <<>>
    /\ \A i \in 1..Len(c) :
         c[i].kind = "dict" /\ c[i].hasLabel /\ c[i].scoreKind = "num"

\* C1: for a non-empty sequence of well-formed {label, score} candidates,
\* pick_top_label returns the label and score of a candidate of maximum
\* score, the first one in the sequence that has it.
C1_FirstMaximum ==
    pickDone =>
        \A c \in Presented(pickIn) :
            WellFormed(c) =>
                /\ ~pickOut.raised
                /\ \E i \in 1..Len(c) :
                     /\ \A j \in 1..Len(c) : c[j].score <= c[i].score
                     /\ \A j \in 1..(i - 1) : c[j].score < c[i].score
                     /\ pickOut.label = c[i].label
                     /\ pickOut.score = c[i].score

\* [{NEGATIVE, 0.99}, {POSITIVE, 0.99}] has been resolved to NEGATIVE
C1_Witness ==
    /\ pickDone
    /\ pickIn = Flat(<<Cand("NEGATIVE", 9900), Cand("POSITIVE", 9900)>>)
    /\ pickOut = [raised |-> FALSE, label |-> "NEGATIVE", score |-> 9900]

\* a result that is no list, an empty list, a nested empty list, or a list
\* none of whose entries is a mapping
NotLabelScorePairs(res) ==
    \/ ~res.isList
    \/ res.items = <<>>
    \/ res.items = <<ListOf(<<>>)>>
    \/ \A i \in 1..Len(res.items) : res.items[i].kind = "scalar"

\* C2: for every result that is empty or no well-formed list of label/score
\* pairs, pick_top_label returns {label: "unknown", score: 0.0} and does not
\* raise.
C2_FallbackOnMalformed ==
    (pickDone /\ NotLabelScorePairs(pickIn)) => pickOut = Fallback

LacksFields(c) ==
    /\ c # <<>>
    /\ \A i \in 1..Len(c) : c[i].kind = "dict" /\ c[i].scoreKind \in {"missing", "num"}
    /\ \E i \in 1..Len(c) : ~c[i].hasLabel \/ c[i].scoreKind = "missing"

ScoreOrZero(item) == IF item.scoreKind = "missing" THEN 0 ELSE item.score
LabelOrUnknown(item) == IF item.hasLabel THEN item.label ELSE "unknown"

\* C3: a candidate without a score takes part in the selection with score
\* 0.0, a selected candidate without a label is returned as "unknown", and
\* the call on candidates lacking fields returns a result without raising.
C3_DefaultsForMissingFields ==
    pickDone =>
        \A c \in Presented(pickIn) :
            LacksFields(c) =>
                /\ ~pickOut.raised
                /\ \E i \in 1..Len(c) :
                     /\ \A j \in 1..Len(c) : ScoreOrZero(c[j]) <= ScoreOrZero(c[i])
                     /\ \A j \in 1..(i - 1) : ScoreOrZero(c[j]) < ScoreOrZero(c[i])
                     /\ pickOut.label = LabelOrUnknown(c[i])
                     /\ pickOut.score = ScoreOrZero(c[i])

\* [{label: NEGATIVE}, {score: 0.8}]: the first counted as 0.0 and lost, the
\* second was selected and is returned as "unknown"
C3_Witness ==
    /\ pickDone
    /\ pickIn = Flat(<<Dict(TRUE, "NEGATIVE", "missing", 0), Dict(FALSE, "", "num", 8000)>>)
    /\ pickOut = [raised |-> FALSE, label |-> "unknown", score |-> 8000]

\* C4: is_suspicious is true exactly when score >= threshold and, if the set
\* of suspicious labels is not empty, the label is one of them.
C4_SuspicionRule ==
    decDone =>
        (decOut <=> /\ decScore >= SCORE_THRESHOLD
                    /\ (SUSPICIOUS_LABELS # {} => decLabel \in SUSPICIOUS_LABELS))

\* a score equal to the threshold, with a listed label, was found suspicious
C4_Witness ==
    /\ decDone
    /\ decScore = SCORE_THRESHOLD
    /\ SUSPICIOUS_LABELS = {"NEGATIVE"}
    /\ decLabel = "NEGATIVE"
    /\ decOut = TRUE

\* C5: a request that got no handle from get_pipeline ends in the 503
\* service-unavailable error without calling the classifier or
\* pick_top_label; so does every request when transformers could not be
\* imported or no handle exists; a verdict is returned only by a request that
\* holds a handle.
C5_UnavailableIs503 ==
    \A w \in Workers :
        pc[w] = "done" =>
            /\ (pipe[w] = NoHandle \/ modelPipeline = NoHandle \/ ~pipelineImported) =>
                   /\ outcome[w].kind = "unavailable"
                   /\ outcome[w].status = 503
                   /\ invoked[w] = {}
            /\ outcome[w].kind = "verdict" =>
                   pipe[w] # NoHandle /\ modelPipeline # NoHandle

\* a request was answered 503 after a load that failed with an empty message
C5_Witness ==
    \E w \in Workers :
        /\ pc[w] = "done"
        /\ modelError = ""
        /\ pipe[w] = NoHandle
        /\ outcome[w] = Unavailable503("model not initialized")

\* C6: once a load has failed, every later get_pipeline call returns no
\* handle without loading again, and every later request is answered
\* classifier-unavailable.
C6_StickyFailure ==
    \A w \in Workers :
        afterFail[w] =>
            /\ pc[w] # "gp_load"
            /\ pc[w] \in {"have_pipe", "done"} => pipe[w] = NoHandle
            /\ pc[w] = "done" => outcome[w].kind = "unavailable"

\* C7: the only error a caller sees is classifier-unavailable; a request
\* that holds a handle returns a verdict.
C7_OnlyUnavailableIsVisible ==
    \A w \in Workers :
        pc[w] = "done" =>
            /\ outcome[w].kind \in {"verdict", "unavailable"}
            /\ pipe[w] # NoHandle => outcome[w].kind = "verdict"

\* C8: two requests with the same text for which the classifier returned the
\* same output get the same verdict, whatever ran before or between them.
C8_SameInputSameVerdict ==
    /\ \A w \in Workers :
         ( /\ pc[w] = "done" /\ outcome[w].kind = "verdict"
           /\ remembered.set
           /\ remembered.text = text[w] /\ remembered.result = result[w] )
         => outcome[w] = remembered.outcome
    /\ \A v, w \in Workers :
         ( /\ pc[v] = "done" /\ outcome[v].kind = "verdict"
           /\ pc[w] = "done" /\ outcome[w].kind = "verdict"
           /\ text[v] = text[w] /\ result[v] = result[w] )
         => outcome[v] = outcome[w]

\* the third request got the verdict remembered from an earlier one with the
\* same text and classifier output
C8_Witness ==
    \E w \in Workers :
        /\ pc[w] = "done" /\ outcome[w].kind = "verdict"
        /\ remembered.set
        /\ remembered.text = text[w] /\ remembered.result = result[w]
        /\ outcome[w].is_suspicious
        /\ requests >= 3

\* C10: the model load is attempted at most once, and a stored handle is
\* never replaced by another one.
C10_LoadedAtMostOnce ==
    [][ /\ loadAttempts' <= 1
        /\ modelPipeline # NoHandle => modelPipeline' = modelPipeline ]_vars

LowerCase == ("A" :> "a") @@ ("K" :> "k") @@ ("L" :> "l") @@ ("M" :> "m") @@ ("N" :> "n") @@ ("O" :> "o") @@ ("R" :> "r") @@ ("S" :> "s") @@ ("U" :> "u")
ToLower(ch) == IF ch \in DOMAIN LowerCase THEN LowerCase[ch] ELSE ch
\* t holds the lower-case word kw somewhere, in any mix of cases
Mentions(t, kw) ==
    \E i \in 1..Len(t) :
        /\ i + Len(kw) - 1 <= Len(t)
        /\ \A k \in 1..Len(kw) : ToLower(t[i + k - 1]) = kw[k]

\* C9: the rule-grounded classifier answers "ANOMALOUS" or "NORMAL" and never
\* raises: "ANOMALOUS" exactly when generation succeeded and the text holds
\* "anomalous" in any case (also when it holds "normal" too), "NORMAL"
\* otherwise.
C9_AnomalousFirstElseNormal ==
    ruleDone =>
        /\ classification \in {"ANOMALOUS", "NORMAL"}
        /\ classification = "ANOMALOUS" <=>
              (~genOut.raised /\ Mentions(genOut.text, <<"a", "n", "o", "m", "a", "l", "o", "u", "s">>))

\* "NORMAL" followed by "anomalous" was classified "ANOMALOUS"
C9_Witness ==
    /\ ruleDone
    /\ genOut = [raised |-> FALSE, text |-> <<"N", "O", "R", "M", "A", "L", "a", "n", "o", "m", "a", "l", "o", "u", "s">>]
    /\ classification = "ANOMALOUS"

====
